---- MODULE Spec2Model ----
(***************************************************************************)
(* SkillSwap back end: the skill catalog (controllers/skills) and the swap *)
(* request engine (controllers/swapRequests) over the Mongo collections    *)
(* Skill, SwapRequest and User.                                            *)
(*                                                                         *)
(* Spec     : every HTTP handler runs to completion before the next one    *)
(*            starts (calls executed one after another).                   *)
(* SpecConc : the accept / decline / status handlers are split at their    *)
(*            awaits: the findById read with its checks is one step, the   *)
(*            findByIdAndUpdate write a later one, and other handlers may  *)
(*            run in between.                                              *)
(* SpecLists   : calls one after another, with room for two swap requests. *)
(* SpecCatalog : the catalog with owner, type and isActive of a skill all  *)
(*               in play, and create of a swap request.                    *)
(* SpecProfile : the profile update of the users controller.               *)
(***************************************************************************)
EXTENDS Naturals, Sequences, FiniteSets

VARIABLES
    skills,     \* Skill collection: skills[i] is the document with _id i
    requests,   \* SwapRequest collection, in creation order (createdAt)
    resp,       \* the last HTTP response sent: [op, code]
    calls,      \* handlers suspended between their read and their write
    seen,       \* history: seen[i] = every status request i has held
    answered,   \* history: answered[i] = number of accept/decline calls on
                \* request i that were answered 200
    users       \* User collection: users[u] is the document of account u

vars == <<skills, requests, resp, calls, seen, answered, users>>

----------------------------------------------------------------------------
(* Bounds of the model *)

MaxSkills == 2

MaxRequests == 1

MaxCalls == 2

----------------------------------------------------------------------------
(* Values *)

\* Authenticated caller identities handed over by verifyToken (req.user._id).
Users == {"A", "B", "C"}

\* skillSchema.type enum
SkillTypes == {"offered", "wanted"}

\* swapRequestSchema.status enum
Statuses == {"pending", "accepted", "declined", "in-progress", "completed"}

\* const validStatuses = ['in-progress', 'completed'];
validStatuses == {"in-progress", "completed"}

\* A text or status field that was not sent or is not set (undefined).
Absent == "absent"

\* An optional body field of another type: << >> when not sent, <<v>> when
\* sent with value v.
None == << >>

Some(v) == <<v>>

Opt(S) == {None} \cup {Some(v) : v \in S}

OrElse(o, d) == IF o = None THEN d ELSE o[1]

\* Ids a caller may send: an id resolves once its document has been created,
\* and does not before.
SkillIdInputs == 1..MaxSkills

RequestIdInputs == 1..MaxRequests

\* status values a caller may put in the body of PUT /:requestId/status
StatusInputs == Statuses \cup {"bogus"}

\* <<comments, requestMessage>> a caller may put in the body of
\* POST /swap-requests: both left out, or both sent.
CreateTexts == {<<Absent, Absent>>, <<"note", "please">>}

\* responseMessage a caller may put in the body of accept / decline
ResponseTexts == {Absent, "ok"}

\* req.body of PUT /skills/:skillId, restricted to the fields the model keeps:
\* empty, or holding one of them (a body holding several acts as the
\* one-field bodies applied in turn).
SkillBodies ==
    {b \in [user : Opt(Users), type : Opt(SkillTypes), isActive : Opt(BOOLEAN)] :
        Cardinality({f \in {"user", "type", "isActive"} : b[f] # None}) <= 1}

\* A slot of calls that holds no suspended handler.
Idle == [op |-> "idle", id |-> 0, status |-> Absent, msg |-> Absent]

----------------------------------------------------------------------------
(* Store look-ups *)

\* Skill.findById(id) returns a document (soft-deleted ones included)
SkillResolves(sid) == sid \in DOMAIN skills

\* SwapRequest.findById(id) returns a document
RequestResolves(rid) == rid \in DOMAIN requests

\* The document User.create stores at sign-up for the account of u: name and
\* location default to the empty string, bio is not set.
NewUser(u) ==
    [username |-> u,
     hashedPassword |-> "hash",
     name |-> "",
     location |-> "",
     bio |-> Absent]

\* No skill and no swap request is stored; the callers have signed up, which
\* is how each of them holds the token verifyToken accepts.
Init ==
    /\ skills = << >>
    /\ requests = << >>
    /\ resp = [op |-> "none", code |-> 0]
    /\ calls = [k \in 1..MaxCalls |-> Idle]
    /\ seen = << >>
    /\ answered = << >>
    /\ users = [u \in Users |-> NewUser(u)]

----------------------------------------------------------------------------
(* Skill catalog: controllers/skills *)

\* POST /skills : Skill.create({...req.body, user: req.user._id})
CreateSkill(c, t, act) ==
    /\ skills' = Append(skills,
                        [user |-> c,
                         type |-> t,
                         isActive |-> OrElse(act, TRUE)])
    /\ resp' = [op |-> "createSkill", code |-> 201]
    /\ UNCHANGED <<requests, calls, seen, answered, users>>

\* UpdateSkillCode with a fault: the check that the caller owns the skill is
\* missing.
UpdateSkillCodeNoOwnerCheck(c, sid) ==
    IF ~SkillResolves(sid) THEN 404
    ELSE 200

\* The checks of PUT /skills/:skillId
UpdateSkillCode(c, sid) ==
    IF ~SkillResolves(sid) THEN 404
    ELSE IF skills[sid].user # c THEN 403
    ELSE 200

\* ApplySkillBody with a fault: isActive is not taken from the body.
ApplySkillBodyKeepsActive(s, body) ==
    [user |-> OrElse(body.user, s.user),
     type |-> OrElse(body.type, s.type),
     isActive |-> s.isActive]

\* Skill.findByIdAndUpdate(skillId, req.body): every field the body holds
\* is written, whichever it is.
ApplySkillBody(s, body) ==
    [user |-> OrElse(body.user, s.user),
     type |-> OrElse(body.type, s.type),
     isActive |-> OrElse(body.isActive, s.isActive)]

\* PUT /skills/:skillId
UpdateSkill(c, sid, body) ==
    LET code == UpdateSkillCode(c, sid) IN
    /\ skills' = IF code = 200
                 THEN [skills EXCEPT ![sid] = ApplySkillBody(skills[sid], body)]
                 ELSE skills
    /\ resp' = [op |-> "updateSkill", code |-> code]
    /\ UNCHANGED <<requests, calls, seen, answered, users>>

\* The checks of DELETE /skills/:skillId
DeleteSkillCode(c, sid) ==
    IF ~SkillResolves(sid) THEN 404
    ELSE IF skills[sid].user # c THEN 403
    ELSE 200

\* DELETE /skills/:skillId : soft delete
DeleteSkill(c, sid) ==
    LET code == DeleteSkillCode(c, sid) IN
    /\ skills' = IF code = 200
                 THEN [skills EXCEPT ![sid].isActive = FALSE]
                 ELSE skills
    /\ resp' = [op |-> "deleteSkill", code |-> code]
    /\ UNCHANGED <<requests, calls, seen, answered, users>>

----------------------------------------------------------------------------
(* Swap request engine: controllers/swapRequests *)

\* CreateCode with a fault: the check that the caller owns the offered skill
\* is missing.
CreateCodeNoOwnerCheck(c, sr, so) ==
    IF ~SkillResolves(sr) \/ ~SkillResolves(so) THEN 404
    ELSE IF skills[sr].user = c THEN 400
    ELSE 201

\* CreateCode with a fault: the ownership check comes before the self-swap
\* check.
CreateCodeOwnerCheckFirst(c, sr, so) ==
    IF ~SkillResolves(sr) \/ ~SkillResolves(so) THEN 404
    ELSE IF skills[so].user # c THEN 403
    ELSE IF skills[sr].user = c THEN 400
    ELSE 201

\* CreateCode with a fault: the check that the requested skill is not the
\* caller's own is missing.
CreateCodeNoSelfSwapCheck(c, sr, so) ==
    IF ~SkillResolves(sr) \/ ~SkillResolves(so) THEN 404
    ELSE IF skills[so].user # c THEN 403
    ELSE 201

\* CreateCode with a fault: a request of the same caller for the same two
\* skills that is already stored makes the call fail.
CreateCodeDeduplicated(c, sr, so) ==
    IF ~SkillResolves(sr) \/ ~SkillResolves(so) THEN 404
    ELSE IF skills[sr].user = c THEN 400
    ELSE IF skills[so].user # c THEN 403
    ELSE IF \E rid \in DOMAIN requests :
                /\ requests[rid].requester = c
                /\ requests[rid].skillRequested = sr
                /\ requests[rid].skillOffered = so THEN 400
    ELSE 201

\* CreateCode with a fault: a requested skill that was soft-deleted counts as
\* not found.
CreateCodeActiveOnly(c, sr, so) ==
    IF ~SkillResolves(sr) \/ ~SkillResolves(so) THEN 404
    ELSE IF ~skills[sr].isActive THEN 404
    ELSE IF skills[sr].user = c THEN 400
    ELSE IF skills[so].user # c THEN 403
    ELSE 201

\* The checks of POST /swap-requests, in the handler's order
CreateCode(c, sr, so) ==
    IF ~SkillResolves(sr) \/ ~SkillResolves(so) THEN 404
    ELSE IF skills[sr].user = c THEN 400
    ELSE IF skills[so].user # c THEN 403
    ELSE 201

\* NewRequest with a fault: skillProvider is the owner of the offered skill.
NewRequestProviderOfOffered(c, sr, so, cm, rm) ==
    [requester |-> c,
     skillProvider |-> skills[so].user,
     skillRequested |-> sr,
     skillOffered |-> so,
     status |-> "pending",
     comments |-> cm,
     requestMessage |-> rm,
     responseMessage |-> Absent]

\* The document SwapRequest.create stores; status takes the schema default,
\* responseMessage is not set.
NewRequest(c, sr, so, cm, rm) ==
    [requester |-> c,
     skillProvider |-> skills[sr].user,
     skillRequested |-> sr,
     skillOffered |-> so,
     status |-> "pending",
     comments |-> cm,
     requestMessage |-> rm,
     responseMessage |-> Absent]

\* POST /swap-requests
CreateRequest(c, sr, so, cm, rm) ==
    LET code == CreateCode(c, sr, so) IN
    /\ IF code = 201
       THEN /\ requests' = Append(requests, NewRequest(c, sr, so, cm, rm))
            /\ seen' = Append(seen, {"pending"})
            /\ answered' = Append(answered, 0)
       ELSE UNCHANGED <<requests, seen, answered>>
    /\ resp' = [op |-> "create", code |-> code]
    /\ UNCHANGED <<skills, calls, users>>

\* AcceptCode with a fault: the check that the request is pending is missing.
AcceptCodeNoPendingCheck(c, rid) ==
    IF ~RequestResolves(rid) THEN 404
    ELSE IF requests[rid].skillProvider # c THEN 403
    ELSE 200

\* AcceptCode with a fault: the status check comes before the check that the
\* caller is the skillProvider.
AcceptCodePendingCheckFirst(c, rid) ==
    IF ~RequestResolves(rid) THEN 404
    ELSE IF requests[rid].status # "pending" THEN 400
    ELSE IF requests[rid].skillProvider # c THEN 403
    ELSE 200

\* The checks of PUT /:requestId/accept
AcceptCode(c, rid) ==
    IF ~RequestResolves(rid) THEN 404
    ELSE IF requests[rid].skillProvider # c THEN 403
    ELSE IF requests[rid].status # "pending" THEN 400
    ELSE 200

\* DeclineCode with a fault: a request that is not pending is refused with the
\* code of the skillProvider check.
DeclineCodeNotPendingAsForbidden(c, rid) ==
    IF ~RequestResolves(rid) THEN 404
    ELSE IF requests[rid].skillProvider # c THEN 403
    ELSE IF requests[rid].status # "pending" THEN 403
    ELSE 200

\* The checks of PUT /:requestId/decline
DeclineCode(c, rid) ==
    IF ~RequestResolves(rid) THEN 404
    ELSE IF requests[rid].skillProvider # c THEN 403
    ELSE IF requests[rid].status # "pending" THEN 400
    ELSE 200

\* StatusCode with a fault: in-progress is not held back until the request is
\* accepted.
StatusCodeNoAcceptedCheck(c, rid, st) ==
    IF ~RequestResolves(rid) THEN 404
    ELSE IF requests[rid].requester # c /\ requests[rid].skillProvider # c THEN 403
    ELSE IF st \notin validStatuses THEN 400
    ELSE 200

\* StatusCode with a fault: completed is held back until the request is
\* in-progress.
StatusCodeCompletedAfterInProgress(c, rid, st) ==
    IF ~RequestResolves(rid) THEN 404
    ELSE IF requests[rid].requester # c /\ requests[rid].skillProvider # c THEN 403
    ELSE IF st \notin validStatuses THEN 400
    ELSE IF requests[rid].status # "accepted" /\ st = "in-progress" THEN 400
    ELSE IF requests[rid].status # "in-progress" /\ st = "completed" THEN 400
    ELSE 200

\* StatusCode with a fault: the status value is validated before the caller
\* is checked to be a participant.
StatusCodeValidCheckFirst(c, rid, st) ==
    IF ~RequestResolves(rid) THEN 404
    ELSE IF st \notin validStatuses THEN 400
    ELSE IF requests[rid].status # "accepted" /\ st = "in-progress" THEN 400
    ELSE IF requests[rid].requester # c /\ requests[rid].skillProvider # c THEN 403
    ELSE 200

\* StatusCode with a fault: the status value is not checked against
\* validStatuses.
StatusCodeNoValidCheck(c, rid, st) ==
    IF ~RequestResolves(rid) THEN 404
    ELSE IF requests[rid].requester # c /\ requests[rid].skillProvider # c THEN 403
    ELSE IF requests[rid].status # "accepted" /\ st = "in-progress" THEN 400
    ELSE 200

\* StatusCode with a fault: the skillProvider alone may update the status.
StatusCodeProviderOnly(c, rid, st) ==
    IF ~RequestResolves(rid) THEN 404
    ELSE IF requests[rid].skillProvider # c THEN 403
    ELSE IF st \notin validStatuses THEN 400
    ELSE IF requests[rid].status # "accepted" /\ st = "in-progress" THEN 400
    ELSE 200

\* The checks of PUT /:requestId/status
StatusCode(c, rid, st) ==
    IF ~RequestResolves(rid) THEN 404
    ELSE IF requests[rid].requester # c /\ requests[rid].skillProvider # c THEN 403
    ELSE IF st \notin validStatuses THEN 400
    ELSE IF requests[rid].status # "accepted" /\ st = "in-progress" THEN 400
    ELSE 200

\* SwapRequest.findByIdAndUpdate(id, {status, responseMessage}): the status is
\* written unconditionally; a responseMessage that is undefined is left out of
\* the update, so the stored one stays.
WriteResponse(rid, st, msg) ==
    [requests EXCEPT ![rid].status = st,
                     ![rid].responseMessage = IF msg = Absent THEN @ ELSE msg]

\* WriteStatus with a fault: the update also names the caller's counterpart
\* as skillProvider, writing the requester there.
WriteStatusRewritesProvider(rid, st) ==
    [requests EXCEPT ![rid].status = st,
                     ![rid].skillProvider = requests[rid].requester]

\* WriteStatus with a fault: the update carries an empty responseMessage.
WriteStatusClearsResponse(rid, st) ==
    [requests EXCEPT ![rid].status = st, ![rid].responseMessage = ""]

\* SwapRequest.findByIdAndUpdate(id, {status})
WriteStatus(rid, st) == [requests EXCEPT ![rid].status = st]

\* PUT /:requestId/accept, run to completion
Accept(c, rid, msg) ==
    LET code == AcceptCode(c, rid) IN
    /\ IF code = 200
       THEN /\ requests' = WriteResponse(rid, "accepted", msg)
            /\ seen' = [seen EXCEPT ![rid] = @ \cup {"accepted"}]
            /\ answered' = [answered EXCEPT ![rid] = @ + 1]
       ELSE UNCHANGED <<requests, seen, answered>>
    /\ resp' = [op |-> "accept", code |-> code]
    /\ UNCHANGED <<skills, calls, users>>

\* PUT /:requestId/decline, run to completion
Decline(c, rid, msg) ==
    LET code == DeclineCode(c, rid) IN
    /\ IF code = 200
       THEN /\ requests' = WriteResponse(rid, "declined", msg)
            /\ seen' = [seen EXCEPT ![rid] = @ \cup {"declined"}]
            /\ answered' = [answered EXCEPT ![rid] = @ + 1]
       ELSE UNCHANGED <<requests, seen, answered>>
    /\ resp' = [op |-> "decline", code |-> code]
    /\ UNCHANGED <<skills, calls, users>>

\* UpdateStatus with a fault: a valid status value is written before the
\* check that in-progress needs an accepted request, which then answers 400.
UpdateStatusWriteBeforeGuard(c, rid, st) ==
    LET code == StatusCode(c, rid, st) IN
    /\ IF code = 200
          \/ (RequestResolves(rid) /\ st \in validStatuses
                 /\ (requests[rid].requester = c \/ requests[rid].skillProvider = c))
       THEN /\ requests' = WriteStatus(rid, st)
            /\ seen' = [seen EXCEPT ![rid] = @ \cup {st}]
       ELSE UNCHANGED <<requests, seen>>
    /\ resp' = [op |-> "status", code |-> code]
    /\ UNCHANGED <<skills, calls, answered, users>>

\* PUT /:requestId/status, run to completion
UpdateStatus(c, rid, st) ==
    LET code == StatusCode(c, rid, st) IN
    /\ IF code = 200
       THEN /\ requests' = WriteStatus(rid, st)
            /\ seen' = [seen EXCEPT ![rid] = @ \cup {st}]
       ELSE UNCHANGED <<requests, seen>>
    /\ resp' = [op |-> "status", code |-> code]
    /\ UNCHANGED <<skills, calls, answered, users>>

----------------------------------------------------------------------------
(* The handlers of accept, decline and status split at their awaits *)

\* A suspended handler: it has passed its checks on the document it read and
\* has its findByIdAndUpdate still to issue.
Call(op, rid, st, msg) == [op |-> op, id |-> rid, status |-> st, msg |-> msg]

\* The slot a handler that suspends now is kept in
FreeSlot == CHOOSE k \in DOMAIN calls : calls[k] = Idle

HasFreeSlot == \E k \in DOMAIN calls : calls[k] = Idle

\* PUT /:requestId/accept up to its findByIdAndUpdate: findById and the checks
AcceptRead(c, rid, msg) ==
    LET code == AcceptCode(c, rid) IN
    /\ IF code = 200
       THEN /\ HasFreeSlot
            /\ calls' = [calls EXCEPT ![FreeSlot] = Call("accept", rid, "accepted", msg)]
            /\ UNCHANGED resp
       ELSE /\ resp' = [op |-> "accept", code |-> code]
            /\ UNCHANGED calls
    /\ UNCHANGED <<skills, requests, seen, answered, users>>

\* PUT /:requestId/decline up to its findByIdAndUpdate
DeclineRead(c, rid, msg) ==
    LET code == DeclineCode(c, rid) IN
    /\ IF code = 200
       THEN /\ HasFreeSlot
            /\ calls' = [calls EXCEPT ![FreeSlot] = Call("decline", rid, "declined", msg)]
            /\ UNCHANGED resp
       ELSE /\ resp' = [op |-> "decline", code |-> code]
            /\ UNCHANGED calls
    /\ UNCHANGED <<skills, requests, seen, answered, users>>

\* PUT /:requestId/status up to its findByIdAndUpdate
StatusRead(c, rid, st) ==
    LET code == StatusCode(c, rid, st) IN
    /\ IF code = 200
       THEN /\ HasFreeSlot
            /\ calls' = [calls EXCEPT ![FreeSlot] = Call("status", rid, st, Absent)]
            /\ UNCHANGED resp
       ELSE /\ resp' = [op |-> "status", code |-> code]
            /\ UNCHANGED calls
    /\ UNCHANGED <<skills, requests, seen, answered, users>>

\* The findByIdAndUpdate of a suspended handler, and its res.json: the update
\* names the document by id alone, whatever its status has become.
CallWrite(k) ==
    LET call == calls[k] IN
    /\ call # Idle
    /\ requests' = IF call.op = "status"
                   THEN WriteStatus(call.id, call.status)
                   ELSE WriteResponse(call.id, call.status, call.msg)
    /\ seen' = [seen EXCEPT ![call.id] = @ \cup {call.status}]
    /\ answered' = IF call.op = "status"
                   THEN answered
                   ELSE [answered EXCEPT ![call.id] = @ + 1]
    /\ resp' = [op |-> call.op, code |-> 200]
    /\ calls' = [calls EXCEPT ![k] = Idle]
    /\ UNCHANGED <<skills, users>>

----------------------------------------------------------------------------
(* Calls executed one after another *)

\* The update bodies of Spec: the fields the swap request engine depends on
\* or that a soft delete writes.
CoreBodies == {b \in SkillBodies : b.type = None}

Next ==
    \/ \E c \in Users, act \in Opt(BOOLEAN) :
          Len(skills) < MaxSkills /\ CreateSkill(c, "offered", act)
    \/ \E c \in Users, sid \in SkillIdInputs, body \in CoreBodies :
          UpdateSkill(c, sid, body)
    \/ \E c \in Users, sid \in SkillIdInputs : DeleteSkill(c, sid)
    \/ \E c \in Users, sr \in SkillIdInputs, so \in SkillIdInputs,
          txt \in CreateTexts :
          Len(requests) < MaxRequests /\ CreateRequest(c, sr, so, txt[1], txt[2])
    \/ \E c \in Users, rid \in RequestIdInputs, msg \in ResponseTexts :
          Accept(c, rid, msg)
    \/ \E c \in Users, rid \in RequestIdInputs, msg \in ResponseTexts :
          Decline(c, rid, msg)
    \/ \E c \in Users, rid \in RequestIdInputs, st \in StatusInputs :
          UpdateStatus(c, rid, st)

Spec == Init /\ [][Next]_vars

----------------------------------------------------------------------------
(* Calls on the swap requests that interleave *)

NextConc ==
    \/ \E c \in Users :
          Len(skills) < MaxSkills /\ CreateSkill(c, "offered", None)
    \/ \E c \in Users, sr \in SkillIdInputs, so \in SkillIdInputs :
          Len(requests) < MaxRequests /\ CreateRequest(c, sr, so, Absent, Absent)
    \/ \E c \in Users, rid \in RequestIdInputs, msg \in ResponseTexts :
          AcceptRead(c, rid, msg)
    \/ \E c \in Users, rid \in RequestIdInputs, msg \in ResponseTexts :
          DeclineRead(c, rid, msg)
    \/ \E c \in Users, rid \in RequestIdInputs, st \in StatusInputs :
          StatusRead(c, rid, st)
    \/ \E k \in DOMAIN calls : CallWrite(k)

SpecConc == Init /\ [][NextConc]_vars

----------------------------------------------------------------------------
(* The listings of skills, and the skills a request is returned with *)

\* .sort({ createdAt: -1 }): the ids of the stored skills, the one created
\* last first
SkillsNewestFirst == [i \in 1..Len(skills) |-> Len(skills) + 1 - i]

\* Browse with a fault: the query does not ask for isActive.
BrowseWithInactive(t) ==
    SelectSeq(SkillsNewestFirst,
              LAMBDA sid : t = None \/ skills[sid].type = t[1])

\* GET /skills : Skill.find({ isActive: true, ... }); of the filters, type is
\* the one on a field the model keeps, t = None when it is not sent. Each
\* other filter leaves out more skills and adds none.
Browse(t) ==
    SelectSeq(SkillsNewestFirst,
              LAMBDA sid : skills[sid].isActive
                              /\ (t = None \/ skills[sid].type = t[1]))

\* GET /skills/search : the same query on isActive and type
Search(t) ==
    SelectSeq(SkillsNewestFirst,
              LAMBDA sid : skills[sid].isActive
                              /\ (t = None \/ skills[sid].type = t[1]))

\* GET /skills/my-skills : Skill.find({ user: req.user._id, isActive: true })
MySkills(c) ==
    SelectSeq(SkillsNewestFirst,
              LAMBDA sid : skills[sid].user = c /\ skills[sid].isActive)

\* GET /skills/user/:userId, and the skills of the profile and browse-users
\* routes: Skill.find({ user: userId, isActive: true })
UserSkills(u) ==
    SelectSeq(SkillsNewestFirst,
              LAMBDA sid : skills[sid].user = u /\ skills[sid].isActive)

\* .populate('skillRequested') / .populate('skillOffered'): the document the
\* id resolves to, whatever its isActive, or none
Populate(sid) ==
    IF SkillResolves(sid)
    THEN Some([id |-> sid,
               user |-> skills[sid].user,
               type |-> skills[sid].type,
               isActive |-> skills[sid].isActive])
    ELSE None

\* A swap request as the swap request routes return it
Resolved(rid) ==
    [requests[rid] EXCEPT !.skillRequested = Populate(@),
                          !.skillOffered = Populate(@)]

----------------------------------------------------------------------------
(* The lists of swap requests: GET /swap-requests, /received, /sent *)

\* .sort({ createdAt: -1 }): the ids of the stored requests, the one created
\* last first
NewestFirst == [i \in 1..Len(requests) |-> Len(requests) + 1 - i]

\* ListAll with a fault: the query names the requester alone.
ListAllRequesterOnly(u) ==
    SelectSeq(NewestFirst, LAMBDA rid : requests[rid].requester = u)

\* ListAll with a fault: the query has no filter.
ListAllUnfiltered(u) == NewestFirst

\* GET /swap-requests :
\* SwapRequest.find({ $or: [{ requester: u }, { skillProvider: u }] })
ListAll(u) ==
    SelectSeq(NewestFirst,
              LAMBDA rid : requests[rid].requester = u
                              \/ requests[rid].skillProvider = u)

\* GET /swap-requests/received : SwapRequest.find({ skillProvider: u })
ListReceived(u) ==
    SelectSeq(NewestFirst, LAMBDA rid : requests[rid].skillProvider = u)

\* GET /swap-requests/sent : SwapRequest.find({ requester: u })
ListSent(u) ==
    SelectSeq(NewestFirst, LAMBDA rid : requests[rid].requester = u)

\* The three GET handlers answer 200 with their list and write nothing.
GetAll(u) ==
    /\ resp' = [op |-> "listAll", code |-> 200]
    /\ UNCHANGED <<skills, requests, calls, seen, answered, users>>

GetReceived(u) ==
    /\ resp' = [op |-> "listReceived", code |-> 200]
    /\ UNCHANGED <<skills, requests, calls, seen, answered, users>>

GetSent(u) ==
    /\ resp' = [op |-> "listSent", code |-> 200]
    /\ UNCHANGED <<skills, requests, calls, seen, answered, users>>

\* The requests the lists are checked on
MaxListed == 2

ListedIdInputs == 1..MaxListed

\* Calls executed one after another, with room for MaxListed requests: skills
\* are created with the defaults, and requests without texts.
NextLists ==
    \/ \E c \in Users :
          Len(skills) < MaxSkills /\ CreateSkill(c, "offered", None)
    \/ \E c \in Users, sr \in SkillIdInputs, so \in SkillIdInputs :
          Len(requests) < MaxListed /\ CreateRequest(c, sr, so, Absent, Absent)
    \/ \E c \in Users, rid \in ListedIdInputs : Accept(c, rid, Absent)
    \/ \E c \in Users, rid \in ListedIdInputs : Decline(c, rid, Absent)
    \/ \E c \in Users, rid \in ListedIdInputs, st \in validStatuses :
          UpdateStatus(c, rid, st)
    \/ \E u \in Users : GetAll(u)
    \/ \E u \in Users : GetReceived(u)
    \/ \E u \in Users : GetSent(u)

SpecLists == Init /\ [][NextLists]_vars

----------------------------------------------------------------------------
(* The skill catalog with every field of a skill in play *)

\* Calls executed one after another on the catalog, with create of a swap
\* request as the one call of the engine: a skill is created with either
\* type, and an update sends any body of SkillBodies.
NextCatalog ==
    \/ \E c \in Users, t \in SkillTypes, act \in Opt(BOOLEAN) :
          Len(skills) < MaxSkills /\ CreateSkill(c, t, act)
    \/ \E c \in Users, sid \in SkillIdInputs, body \in SkillBodies :
          UpdateSkill(c, sid, body)
    \/ \E c \in Users, sid \in SkillIdInputs : DeleteSkill(c, sid)
    \/ \E c \in Users, sr \in SkillIdInputs, so \in SkillIdInputs :
          Len(requests) < MaxRequests /\ CreateRequest(c, sr, so, Absent, Absent)

SpecCatalog == Init /\ [][NextCatalog]_vars

----------------------------------------------------------------------------
(* The profile of a user: PUT /users/profile/me *)

\* A text a caller may send for a field of the profile
ProfileTexts == {"new"}

\* req.body of PUT /users/profile/me: the three fields the handler reads, and
\* the two other string fields of the user document, each sent or not.
ProfileBodies ==
    [name : Opt(ProfileTexts), location : Opt(ProfileTexts),
     bio : Opt(ProfileTexts), username : Opt(ProfileTexts),
     hashedPassword : Opt(ProfileTexts)]

\* The check of PUT /users/profile/me: findByIdAndUpdate found the caller's
\* document or not
UpdateProfileCode(c) == IF c \notin DOMAIN users THEN 404 ELSE 200

\* ApplyProfileBody with a fault: the body is handed whole to the update.
ApplyProfileBodyWhole(u, body) ==
    [username |-> OrElse(body.username, u.username),
     hashedPassword |-> OrElse(body.hashedPassword, u.hashedPassword),
     name |-> OrElse(body.name, u.name),
     location |-> OrElse(body.location, u.location),
     bio |-> OrElse(body.bio, u.bio)]

\* const { name, location, bio } = req.body; the update { name, location,
\* bio }: a field that was not sent is undefined and is left out of it.
ApplyProfileBody(u, body) ==
    [u EXCEPT !.name = OrElse(body.name, @),
              !.location = OrElse(body.location, @),
              !.bio = OrElse(body.bio, @)]

\* PUT /users/profile/me : User.findByIdAndUpdate(req.user._id, ...)
UpdateProfile(c, body) ==
    LET code == UpdateProfileCode(c) IN
    /\ users' = IF code = 200
                THEN [users EXCEPT ![c] = ApplyProfileBody(users[c], body)]
                ELSE users
    /\ resp' = [op |-> "updateProfile", code |-> code]
    /\ UNCHANGED <<skills, requests, calls, seen, answered>>

\* Calls executed one after another on the profiles, with the creation of a
\* skill as a call of another router.
NextProfile ==
    \/ \E c \in Users, body \in ProfileBodies : UpdateProfile(c, body)
    \/ \E c \in Users :
          Len(skills) < MaxSkills /\ CreateSkill(c, "offered", None)

SpecProfile == Init /\ [][NextProfile]_vars

----------------------------------------------------------------------------
(* Properties *)

Status(rid) == requests[rid].status

Participant(c, rid) ==
    c = requests[rid].requester \/ c = requests[rid].skillProvider

TypeOK ==
    /\ Len(skills) <= MaxSkills
    /\ \A sid \in DOMAIN skills :
          /\ skills[sid].user \in Users
          /\ skills[sid].type \in SkillTypes
          /\ skills[sid].isActive \in BOOLEAN
    /\ Len(requests) <= MaxRequests
    /\ DOMAIN seen = DOMAIN requests
    /\ DOMAIN answered = DOMAIN requests
    /\ \A rid \in DOMAIN requests :
          /\ requests[rid].requester \in Users
          /\ requests[rid].skillProvider \in Users
          /\ requests[rid].skillRequested \in DOMAIN skills
          /\ requests[rid].skillOffered \in DOMAIN skills
          /\ Status(rid) \in Statuses
          /\ Status(rid) \in seen[rid]
          /\ seen[rid] \subseteq Statuses

\* C1: with calls executed one after another, an accept or decline is answered
\* 200 only if the request was pending immediately before it, the status is
\* then accepted (accept) or declined (decline), and once a request has been
\* answered every accept or decline on it fails and leaves the store as it was.
C1_RespondOnce ==
    [][resp'.op \in {"accept", "decline"} =>
          \A c \in Users, rid \in RequestIdInputs, msg \in ResponseTexts :
              /\ (resp'.op = "accept" /\ resp'.code = 200 /\ Accept(c, rid, msg))
                    => (Status(rid) = "pending" /\ requests'[rid].status = "accepted")
              /\ (resp'.op = "decline" /\ resp'.code = 200 /\ Decline(c, rid, msg))
                    => (Status(rid) = "pending" /\ requests'[rid].status = "declined")
              /\ (RequestResolves(rid) /\ answered[rid] > 0
                    /\ (Accept(c, rid, msg) \/ Decline(c, rid, msg)))
                    => (resp'.code # 200 /\ requests' = requests)
      ]_vars

\* C1 witness: a request was answered, and a later accept or decline by its
\* skillProvider was refused.
C1_Witness ==
    /\ resp.op \in {"accept", "decline"}
    /\ resp.code = 400
    /\ \E rid \in DOMAIN requests :
          answered[rid] = 1 /\ Status(rid) \in {"accepted", "declined"}

\* C2: of the accept / decline calls on one request, interleaved or not, at
\* most one is answered 200.
C2_AtMostOneAnswer ==
    \A rid \in DOMAIN requests : answered[rid] <= 1

\* C3: every stored swap request has skillProvider = the owner of its
\* skillRequested.
C3_ProviderOwnsRequested ==
    \A rid \in DOMAIN requests :
        requests[rid].skillProvider = skills[requests[rid].skillRequested].user

\* C4: declined and completed are terminal: from such a status no step changes
\* the status, and every accept, decline or status call on the request is
\* rejected.
C4_Terminal ==
    [][\A rid \in DOMAIN requests :
          Status(rid) \in {"declined", "completed"} =>
              /\ requests'[rid].status = Status(rid)
              /\ \A c \in Users :
                    /\ \A msg \in ResponseTexts :
                          (resp'.op \in {"accept", "decline"}
                              /\ (Accept(c, rid, msg) \/ Decline(c, rid, msg)))
                              => resp'.code # 200
                    /\ \A st \in StatusInputs :
                          (resp'.op = "status" /\ UpdateStatus(c, rid, st))
                              => resp'.code # 200
      ]_vars

\* C5: a request whose status is completed has held the status accepted.
C5_CompletedWasAccepted ==
    \A rid \in DOMAIN requests :
        Status(rid) = "completed" => "accepted" \in seen[rid]

\* The moves of the chain pending, accepted, in-progress, completed and the
\* branch pending -> declined.
ChainMoves ==
    {<<"pending", "accepted">>, <<"pending", "declined">>,
     <<"accepted", "in-progress">>, <<"in-progress", "completed">>}

\* C6: every change of a request's status is a move of the chain.
C6_OnlyChainMoves ==
    [][\A rid \in DOMAIN requests :
          requests'[rid].status # Status(rid)
              => <<Status(rid), requests'[rid].status>> \in ChainMoves
      ]_vars

\* C7: a status update to in-progress by a participant of an existing request
\* is answered 200 exactly when the status immediately before is accepted; it
\* then sets in-progress, and otherwise leaves the request as it was.
C7_InProgressIffAccepted ==
    [][resp'.op = "status" =>
          \A c \in Users, rid \in RequestIdInputs :
              (RequestResolves(rid) /\ Participant(c, rid)
                  /\ UpdateStatus(c, rid, "in-progress"))
              => /\ resp'.code = 200 <=> Status(rid) = "accepted"
                 /\ resp'.code = 200 => requests'[rid].status = "in-progress"
                 /\ resp'.code # 200 => requests' = requests
      ]_vars

\* C7 witness: a status update to in-progress succeeded on an accepted request.
C7_Witness ==
    /\ resp = [op |-> "status", code |-> 200]
    /\ \E rid \in DOMAIN requests :
          Status(rid) = "in-progress" /\ "accepted" \in seen[rid]

\* C8: a status update to completed by a participant of a request that is
\* accepted and has never been in-progress is answered 200 and sets completed.
C8_CompletedFromAccepted ==
    [][resp'.op = "status" =>
          \A c \in Users, rid \in RequestIdInputs :
              (RequestResolves(rid) /\ Participant(c, rid)
                  /\ Status(rid) = "accepted" /\ "in-progress" \notin seen[rid]
                  /\ UpdateStatus(c, rid, "completed"))
              => (resp'.code = 200 /\ requests'[rid].status = "completed")
      ]_vars

\* C8 witness: a request went from accepted to completed without in-progress.
C8_Witness ==
    /\ resp = [op |-> "status", code |-> 200]
    /\ \E rid \in DOMAIN requests :
          Status(rid) = "completed"
              /\ seen[rid] = {"pending", "accepted", "completed"}

\* C9 as stated: a create whose offered skill is owned by someone else than
\* the caller is answered 403 and stores nothing (taken on two skill ids that
\* resolve).
C9_NotOwnerIsForbidden ==
    [][resp'.op = "create" =>
          \A c \in Users, sr \in SkillIdInputs, so \in SkillIdInputs,
              txt \in CreateTexts :
              (SkillResolves(sr) /\ SkillResolves(so)
                  /\ skills[so].user # c
                  /\ CreateRequest(c, sr, so, txt[1], txt[2]))
              => (resp'.code = 403 /\ requests' = requests)
      ]_vars

\* C9 amended: a create on two skill ids that resolve, whose requested skill is
\* not owned by the caller and whose offered skill is not owned by the caller,
\* is answered 403 and stores nothing.
C9_NotOwnerIsForbiddenUnlessSelfSwap ==
    [][resp'.op = "create" =>
          \A c \in Users, sr \in SkillIdInputs, so \in SkillIdInputs,
              txt \in CreateTexts :
              (SkillResolves(sr) /\ SkillResolves(so)
                  /\ skills[sr].user # c
                  /\ skills[so].user # c
                  /\ CreateRequest(c, sr, so, txt[1], txt[2]))
              => (resp'.code = 403 /\ requests' = requests)
      ]_vars

\* C9 witness: a create was answered 403, and nothing is stored.
C9_Witness ==
    /\ resp = [op |-> "create", code |-> 403]
    /\ requests = << >>
    /\ \E so \in DOMAIN skills : \E c \in Users : skills[so].user # c

\* C10 as stated: a create whose requested skill is owned by the caller is
\* answered 400 and stores nothing, whatever the offered skill id.
C10_SelfSwapIsInvalid ==
    [][resp'.op = "create" =>
          \A c \in Users, sr \in SkillIdInputs, so \in SkillIdInputs,
              txt \in CreateTexts :
              (SkillResolves(sr) /\ skills[sr].user = c
                  /\ CreateRequest(c, sr, so, txt[1], txt[2]))
              => (resp'.code = 400 /\ requests' = requests)
      ]_vars

\* C10 amended: a create whose requested skill is owned by the caller and
\* whose offered skill id resolves is answered 400 and stores nothing.
C10_SelfSwapIsInvalidWhenOfferedResolves ==
    [][resp'.op = "create" =>
          \A c \in Users, sr \in SkillIdInputs, so \in SkillIdInputs,
              txt \in CreateTexts :
              (SkillResolves(sr) /\ SkillResolves(so)
                  /\ skills[sr].user = c
                  /\ CreateRequest(c, sr, so, txt[1], txt[2]))
              => (resp'.code = 400 /\ requests' = requests)
      ]_vars

\* C10 witness: a create was answered 400, and nothing is stored.
C10_Witness ==
    /\ resp = [op |-> "create", code |-> 400]
    /\ requests = << >>
    /\ skills # << >>

\* C11: every stored swap request has requester different from skillProvider.
C11_NoSelfSwapStored ==
    \A rid \in DOMAIN requests :
        requests[rid].requester # requests[rid].skillProvider

\* C11 witness: a request is stored after its requester came to own the skill
\* it asks for, and requester and skillProvider are still two users.
C11_Witness ==
    \E rid \in DOMAIN requests :
        /\ skills[requests[rid].skillRequested].user = requests[rid].requester
        /\ requests[rid].requester # requests[rid].skillProvider

\* C12: a create that is answered 201 stores exactly one new request, after
\* the ones already stored: its requester is the caller, its skillProvider is
\* the owner of the requested skill as the call read it, its skillRequested
\* and skillOffered are the ids supplied, its status is pending, and the
\* offered skill is owned by the caller at that moment.
C12_CreateStoresDerivedFields ==
    [][(resp'.op = "create" /\ resp'.code = 201) =>
          \A c \in Users, sr \in SkillIdInputs, so \in SkillIdInputs,
              txt \in CreateTexts :
              CreateRequest(c, sr, so, txt[1], txt[2]) =>
                  /\ Len(requests') = Len(requests) + 1
                  /\ SubSeq(requests', 1, Len(requests)) = requests
                  /\ LET new == requests'[Len(requests')] IN
                        /\ new.requester = c
                        /\ new.skillProvider = skills[sr].user
                        /\ new.skillRequested = sr
                        /\ new.skillOffered = so
                        /\ new.status = "pending"
                  /\ skills[so].user = c
      ]_vars

\* C12 witness: a create has just been answered 201 and its request is stored.
C12_Witness ==
    /\ resp = [op |-> "create", code |-> 201]
    /\ Len(requests) = 1
    /\ requests[1].status = "pending"
    /\ skills[requests[1].skillOffered].user = requests[1].requester

\* C13: an accept or decline of a stored request by any caller other than its
\* skillProvider, the requester included, is answered 403 whatever the status
\* of the request, and leaves its status and responseMessage as they were.
C13_OnlyProviderResponds ==
    [][resp'.op \in {"accept", "decline"} =>
          \A c \in Users, rid \in RequestIdInputs, msg \in ResponseTexts :
              (RequestResolves(rid) /\ requests[rid].skillProvider # c
                  /\ (Accept(c, rid, msg) \/ Decline(c, rid, msg)))
              => /\ resp'.code = 403
                 /\ requests'[rid].status = requests[rid].status
                 /\ requests'[rid].responseMessage = requests[rid].responseMessage
      ]_vars

\* C13 witness: an accept or decline was answered 403 on a request that is no
\* longer pending.
C13_Witness ==
    /\ resp.op \in {"accept", "decline"}
    /\ resp.code = 403
    /\ \E rid \in DOMAIN requests : Status(rid) = "accepted"

\* C14: a status update of a stored request by a caller who is neither its
\* requester nor its skillProvider is answered 403 whatever the status value
\* sent and whatever the status of the request, and leaves the request as it
\* was.
C14_OnlyParticipantsUpdateStatus ==
    [][resp'.op = "status" =>
          \A c \in Users, rid \in RequestIdInputs, st \in StatusInputs :
              (RequestResolves(rid) /\ ~Participant(c, rid)
                  /\ UpdateStatus(c, rid, st))
              => (resp'.code = 403 /\ requests'[rid] = requests[rid])
      ]_vars

\* C14 witness: a status update was answered 403 on a request that is
\* accepted, the status from which a participant may move it.
C14_Witness ==
    /\ resp = [op |-> "status", code |-> 403]
    /\ \E rid \in DOMAIN requests : Status(rid) = "accepted"

C16_ErrorsWriteNothing ==
    [][(resp'.op \in {"create", "accept", "decline", "status"}
          /\ resp'.code \notin {200, 201})
          => (requests' = requests /\ skills' = skills)
      ]_vars

\* C16 witness: with a request stored, its requester's call to move it to
\* in-progress before it was accepted has been refused.
C16_Witness ==
    /\ resp = [op |-> "status", code |-> 400]
    /\ \E rid \in DOMAIN requests : seen[rid] = {"pending"}

\* C17: a status update that sends a value other than in-progress and
\* completed is rejected and changes no request, so no status update sets a
\* status to pending, accepted or declined; and after every step the status of
\* every stored request is one of pending, accepted, declined, in-progress,
\* completed.
C17_StatusValuesGuarded ==
    [][/\ \A rid \in DOMAIN requests' : requests'[rid].status \in Statuses
       /\ resp'.op = "status" =>
             \A c \in Users, rid \in RequestIdInputs, st \in StatusInputs :
                 UpdateStatus(c, rid, st) =>
                     /\ st \notin validStatuses
                           => (resp'.code # 200 /\ requests' = requests)
                     /\ (RequestResolves(rid)
                            /\ requests'[rid].status # requests[rid].status)
                           => requests'[rid].status
                                  \notin {"pending", "accepted", "declined"}
      ]_vars

\* C17 witness: a participant's status update to a value outside
\* validStatuses was refused on an accepted request.
C17_Witness ==
    /\ resp = [op |-> "status", code |-> 400]
    /\ \E rid \in DOMAIN requests :
          Status(rid) = "accepted" /\ seen[rid] = {"pending", "accepted"}

\* The members of a list
Range(s) == {s[i] : i \in DOMAIN s}

\* A list that holds no request twice
NoRepeat(s) == \A i, j \in DOMAIN s : s[i] = s[j] => i = j

\* C18: for every user u the requests of the received list and of the sent
\* list of u are together the requests of the full list of u, and no stored
\* request is twice in any of the three lists.
C18_ReceivedAndSentPartitionAll ==
    \A u \in Users :
        /\ Range(ListReceived(u)) \cup Range(ListSent(u)) = Range(ListAll(u))
        /\ NoRepeat(ListReceived(u))
        /\ NoRepeat(ListSent(u))
        /\ NoRepeat(ListAll(u))

\* C18 witness: the full list was served while some user has a request in the
\* received list and another in the sent list.
C18_Witness ==
    /\ resp = [op |-> "listAll", code |-> 200]
    /\ \E u \in Users :
          /\ Len(ListReceived(u)) = 1
          /\ Len(ListSent(u)) = 1
          /\ Len(ListAll(u)) = 2

\* C19: for every user u the full list of u holds exactly the stored requests
\* whose requester or skillProvider is u, each once.
C19_ListAllIsParticipantsRequests ==
    \A u \in Users :
        /\ Range(ListAll(u)) = {rid \in DOMAIN requests : Participant(u, rid)}
        /\ NoRepeat(ListAll(u))

\* C19 witness: the full list was served while two requests are stored, one
\* user is part of both and another user is part of none.
C19_Witness ==
    /\ resp = [op |-> "listAll", code |-> 200]
    /\ Len(requests) = 2
    /\ \E u, v \in Users :
          /\ ListAll(u) = <<2, 1>>
          /\ ListAll(v) = << >>

\* C20: a soft delete of a skill that a stored request names changes nothing
\* but the isActive of that skill, which becomes false: the skill still
\* resolves by id, every request that names it is returned with the whole
\* skill in it, and the skill is in none of the browse, search, my-skills and
\* per-user listings.
C20_SoftDeleteKeepsReferences ==
    [][(resp'.op = "deleteSkill" /\ resp'.code = 200) =>
          \A c \in Users, sid \in SkillIdInputs :
              (DeleteSkill(c, sid)
                  /\ \E rid \in DOMAIN requests :
                        sid \in {requests[rid].skillRequested,
                                 requests[rid].skillOffered})
              => /\ skills' = [skills EXCEPT ![sid].isActive = FALSE]
                 /\ requests' = requests
                 /\ SkillResolves(sid)'
                 /\ \A rid \in DOMAIN requests :
                       LET kept == Some([id |-> sid,
                                         user |-> skills[sid].user,
                                         type |-> skills[sid].type,
                                         isActive |-> FALSE])
                       IN /\ requests[rid].skillRequested = sid
                                => Resolved(rid)'.skillRequested = kept
                          /\ requests[rid].skillOffered = sid
                                => Resolved(rid)'.skillOffered = kept
                 /\ \A t \in Opt(SkillTypes) :
                       /\ sid \notin Range(Browse(t))'
                       /\ sid \notin Range(Search(t))'
                 /\ \A u \in Users :
                       /\ sid \notin Range(MySkills(u))'
                       /\ sid \notin Range(UserSkills(u))'
      ]_vars

\* C20 witness: a soft delete was answered 200, and the skill a stored request
\* asks for is inactive, is in the request as returned and is in no browse
\* listing, while the skill offered is still listed.
C20_Witness ==
    /\ resp = [op |-> "deleteSkill", code |-> 200]
    /\ \E rid \in DOMAIN requests :
          LET sr == requests[rid].skillRequested
              so == requests[rid].skillOffered
          IN /\ ~skills[sr].isActive
             /\ Resolved(rid).skillRequested # None
             /\ sr \notin Range(Browse(None))
             /\ so \in Range(Browse(None))

\* C21: no step changes the owner or the type of a stored skill, so both are
\* always the values the skill was created with.
C21_OwnerAndTypeKept ==
    [][\A sid \in DOMAIN skills :
          /\ skills'[sid].user = skills[sid].user
          /\ skills'[sid].type = skills[sid].type
      ]_vars

\* C22: an update or a soft delete of a stored skill by a caller who is not
\* its current owner is answered 403 and leaves every field of the skill, and
\* every other skill, as it was.
C22_OnlyOwnerEditsSkill ==
    [][resp'.op \in {"updateSkill", "deleteSkill"} =>
          \A c \in Users, sid \in SkillIdInputs :
              (SkillResolves(sid) /\ skills[sid].user # c
                  /\ (DeleteSkill(c, sid)
                        \/ \E body \in SkillBodies : UpdateSkill(c, sid, body)))
              => (resp'.code = 403 /\ skills' = skills)
      ]_vars

\* C22 witness: an update was answered 403 while an active skill that a
\* request asks for has an owner other than the one it had when the request
\* was created, who is its owner no more.
C22_Witness ==
    /\ resp = [op |-> "updateSkill", code |-> 403]
    /\ \E rid \in DOMAIN requests :
          /\ skills[requests[rid].skillRequested].isActive
          /\ skills[requests[rid].skillRequested].user
                # requests[rid].skillProvider

\* C23: no step removes a stored swap request or changes its requester,
\* skillProvider, skillRequested or skillOffered, so every request ever
\* created is stored with the four values it was created with; accept,
\* decline and status update among the steps.
C23_RequestsKeptWithReferences ==
    [][\A rid \in DOMAIN requests :
          /\ rid \in DOMAIN requests'
          /\ requests'[rid].requester = requests[rid].requester
          /\ requests'[rid].skillProvider = requests[rid].skillProvider
          /\ requests'[rid].skillRequested = requests[rid].skillRequested
          /\ requests'[rid].skillOffered = requests[rid].skillOffered
      ]_vars

\* C23 witness: a request went through accept and two status updates and is
\* stored, requester and skillProvider in place.
C23_Witness ==
    /\ resp = [op |-> "status", code |-> 200]
    /\ \E rid \in DOMAIN requests :
          /\ seen[rid] = {"pending", "accepted", "in-progress", "completed"}
          /\ requests[rid].requester # requests[rid].skillProvider
          /\ SkillResolves(requests[rid].skillRequested)
          /\ SkillResolves(requests[rid].skillOffered)

\* C24: a create by the caller, and for the two skills, of a request that is
\* already stored is answered as it would be with no request stored: with the
\* owners as they were at the first create it is answered 201, and stores a
\* second request, pending, next to the first, which is left as it was.
C24_CreateNotDeduplicated ==
    [][resp'.op = "create" =>
          \A c \in Users, sr \in SkillIdInputs, so \in SkillIdInputs :
              (CreateRequest(c, sr, so, Absent, Absent)
                  /\ \E rid \in DOMAIN requests :
                        /\ requests[rid].requester = c
                        /\ requests[rid].skillRequested = sr
                        /\ requests[rid].skillOffered = so
                        /\ requests[rid].skillProvider = skills[sr].user
                        /\ skills[so].user = c)
              => /\ resp'.code = 201
                 /\ Len(requests') = Len(requests) + 1
                 /\ requests'[Len(requests')].status = "pending"
                 /\ SubSeq(requests', 1, Len(requests)) = requests
      ]_vars

\* C24 witness: two creates by one caller for the same two skills were both
\* answered 201, and two requests are stored for them, both pending.
C24_Witness ==
    /\ resp = [op |-> "create", code |-> 201]
    /\ Len(requests) = 2
    /\ requests[1] = requests[2]
    /\ requests[1].status = "pending"

\* C25: the steps of the full lifecycle succeed one after the other. With the
\* requested skill owned by one user and the offered skill by another, the
\* create of the second is answered 201 with status pending and skillProvider
\* the first; on the pending request the accept of the skillProvider is
\* answered 200 and the status is accepted; then a status update to
\* in-progress by either party is answered 200; then one to completed by
\* either party is answered 200; and an accept by the skillProvider of the
\* completed request fails.
C25_LifecycleStepsSucceed ==
    [][resp'.op \in {"create", "accept", "status"} =>
          /\ \A c \in Users, sr \in SkillIdInputs, so \in SkillIdInputs,
                 txt \in CreateTexts :
                 (SkillResolves(sr) /\ SkillResolves(so)
                     /\ skills[so].user = c /\ skills[sr].user # c
                     /\ CreateRequest(c, sr, so, txt[1], txt[2]))
                 => /\ resp'.code = 201
                    /\ requests'[Len(requests')].status = "pending"
                    /\ requests'[Len(requests')].skillProvider = skills[sr].user
          /\ \A c \in Users, rid \in RequestIdInputs :
                /\ \A msg \in ResponseTexts :
                      (RequestResolves(rid) /\ requests[rid].skillProvider = c
                          /\ Accept(c, rid, msg))
                      => IF Status(rid) = "pending"
                         THEN resp'.code = 200
                                 /\ requests'[rid].status = "accepted"
                         ELSE resp'.code # 200 /\ requests' = requests
                /\ \A st \in validStatuses :
                      (RequestResolves(rid) /\ Participant(c, rid)
                          /\ UpdateStatus(c, rid, st)
                          /\ \/ Status(rid) = "accepted" /\ st = "in-progress"
                             \/ Status(rid) = "in-progress" /\ st = "completed")
                      => (resp'.code = 200 /\ requests'[rid].status = st)
      ]_vars

\* C25 witness: a request of one user to another was accepted, started and
\* completed, and an accept of the completed request was then refused.
C25_Witness ==
    /\ resp = [op |-> "accept", code |-> 400]
    /\ \E rid \in DOMAIN requests :
          /\ Status(rid) = "completed"
          /\ seen[rid] = {"pending", "accepted", "in-progress", "completed"}
          /\ answered[rid] = 1
          /\ skills[requests[rid].skillRequested].user = requests[rid].skillProvider
          /\ skills[requests[rid].skillOffered].user = requests[rid].requester

\* C26: with the reads and writes of accept, decline and status update as
\* separate steps, no step takes the status of a request from in-progress or
\* completed to accepted or declined.
C26_NoStaleResponseOverwrite ==
    [][\A rid \in DOMAIN requests :
          Status(rid) \in {"in-progress", "completed"}
              => requests'[rid].status \notin {"accepted", "declined"}
      ]_vars

\* C27: a step changes the record of a user only if it is a profile update
\* called by that user, and then changes nothing of it but name, location
\* and bio: the username and the credential hash of every user stay.
C27_ProfileUpdateFrame ==
    [][\A u \in Users :
          /\ users'[u].username = users[u].username
          /\ users'[u].hashedPassword = users[u].hashedPassword
          /\ users'[u] # users[u]
                => /\ resp'.op = "updateProfile"
                   /\ \A c \in Users, body \in ProfileBodies :
                         UpdateProfile(c, body) => c = u
      ]_vars

\* C27 witness: a profile update was answered 200, and one user's record has
\* a new name, location and bio while another's is as sign-up stored it.
C27_Witness ==
    /\ resp = [op |-> "updateProfile", code |-> 200]
    /\ \E u, v \in Users :
          /\ users[u].name = "new"
          /\ users[u].location = "new"
          /\ users[u].bio = "new"
          /\ users[u].username = u
          /\ users[v] = NewUser(v)

\* C28: a step changes the responseMessage of a request only if it is an
\* accept or decline answered 200; a request that is pending has no
\* responseMessage; no step takes a request that is not pending to pending;
\* and a status update leaves responseMessage, comments and requestMessage
\* of every request as they were.
C28_ResponseMessageByResponseOnly ==
    [][/\ \A rid \in DOMAIN requests' :
             requests'[rid].status = "pending"
                 => requests'[rid].responseMessage = Absent
       /\ \A rid \in DOMAIN requests :
             /\ Status(rid) # "pending" => requests'[rid].status # "pending"
             /\ requests'[rid].responseMessage # requests[rid].responseMessage
                   => (resp'.op \in {"accept", "decline"} /\ resp'.code = 200)
             /\ resp'.op = "status"
                   => /\ requests'[rid].responseMessage
                            = requests[rid].responseMessage
                      /\ requests'[rid].comments = requests[rid].comments
                      /\ requests'[rid].requestMessage
                            = requests[rid].requestMessage
      ]_vars

\* C28 witness: a request that was accepted with a responseMessage has been
\* moved on by a status update and still holds that message and its texts.
C28_Witness ==
    /\ resp = [op |-> "status", code |-> 200]
    /\ \E rid \in DOMAIN requests :
          /\ Status(rid) = "in-progress"
          /\ requests[rid].responseMessage = "ok"
          /\ requests[rid].comments = "note"
          /\ requests[rid].requestMessage = "please"

\* C29: the answer of create is settled by which of the two ids resolve and by
\* the owners of the skills. A step that leaves the stored skills with their
\* owners, whatever it does to isActive and type, leaves the answer to every
\* create as it was; and a create for another user's skill that offers a
\* skill of the caller is answered 201 and stores the request, whether the
\* skills are active or soft-deleted, offered or wanted.
C29_CreateIgnoresActiveAndType ==
    [][/\ (/\ DOMAIN skills' = DOMAIN skills
           /\ \A sid \in DOMAIN skills : skills'[sid].user = skills[sid].user)
          => \A c \in Users, sr \in SkillIdInputs, so \in SkillIdInputs :
                CreateCode(c, sr, so)' = CreateCode(c, sr, so)
       /\ resp'.op = "create" =>
             \A c \in Users, sr \in SkillIdInputs, so \in SkillIdInputs :
                 (SkillResolves(sr) /\ SkillResolves(so)
                     /\ skills[sr].user # c /\ skills[so].user = c
                     /\ CreateRequest(c, sr, so, Absent, Absent))
                 => (resp'.code = 201 /\ Len(requests') = Len(requests) + 1)
      ]_vars

\* C29 witness: a create was answered 201 for a requested skill that is
\* soft-deleted and of type wanted.
C29_Witness ==
    /\ resp = [op |-> "create", code |-> 201]
    /\ Len(requests) = 1
    /\ ~skills[requests[1].skillRequested].isActive
    /\ skills[requests[1].skillRequested].type = "wanted"
    /\ ~skills[requests[1].skillOffered].isActive

\* C30 as stated: once a skill has been soft-deleted no step makes it active
\* again. Here for the step that follows the soft delete: the one skill that
\* is inactive after a delete answered 200 is the skill it deleted.
C30_SoftDeleteIsPermanent ==
    [][\A sid \in DOMAIN skills :
          (/\ resp = [op |-> "deleteSkill", code |-> 200]
           /\ ~skills[sid].isActive
           /\ \A other \in DOMAIN skills \ {sid} : skills[other].isActive)
          => ~skills'[sid].isActive
      ]_vars

\* C30: a skill that is soft-deleted stays so, and out of the browse, search
\* and my-skills results, through every delete and through every update whose
\* body does not hold isActive: true; the step that makes it active again is
\* an update by its owner with isActive: true in the body, after which it is
\* in those results again.
C30_SoftDeleteUntilReactivated ==
    [][resp'.op \in {"updateSkill", "deleteSkill"} =>
          \A sid \in DOMAIN skills :
              ~skills[sid].isActive =>
                  /\ resp'.op = "deleteSkill" => ~skills'[sid].isActive
                  /\ \A c \in Users, body \in SkillBodies :
                        UpdateSkill(c, sid, body) =>
                            (skills'[sid].isActive
                                <=> (skills[sid].user = c
                                        /\ body.isActive = Some(TRUE)))
                  /\ IF skills'[sid].isActive
                     THEN /\ sid \in Range(Browse(None))'
                          /\ sid \in Range(Search(None))'
                          /\ sid \in Range(MySkills(skills[sid].user))'
                     ELSE \A u \in Users, t \in Opt(SkillTypes) :
                             /\ sid \notin Range(Browse(t))'
                             /\ sid \notin Range(Search(t))'
                             /\ sid \notin Range(MySkills(u))'
      ]_vars

\* C30 witness: a soft delete was answered 200 with the stored skills all
\* inactive, so that the deleted one is among them and in no listing.
C30_Witness ==
    /\ resp = [op |-> "deleteSkill", code |-> 200]
    /\ Len(skills) = MaxSkills
    /\ \A sid \in DOMAIN skills : ~skills[sid].isActive
    /\ Browse(None) = << >>
    /\ \A u \in Users : MySkills(u) = << >>

====
